---- MODULE Spec2Model ----
(***************************************************************************)
(* The byte-code virtual machine of vm.py: memory, register file, PC, SP,  *)
(* the fetch / advance / dispatch loop of VM.run and one handler per       *)
(* opcode.                                                                 *)
(*                                                                         *)
(* Python integers are unbounded, and the registers hold values up to      *)
(* 2^32 - 1.  An integer n is therefore kept as the pair <<hi, lo>> with    *)
(* n = hi * 65536 + lo and 0 <= lo < 65536; hi carries the sign.  A value  *)
(* is an unsigned 32-bit word exactly when 0 <= hi < 65536.                *)
(***************************************************************************)
EXTENDS Integers, Sequences, FiniteSets, TLC

VARIABLES memory, regs, pc, sp, running, exc, loaded, cycles, hist

vars == <<memory, regs, pc, sp, running, exc, loaded, cycles, hist>>

\* ------------------------------------------------------------------ bounds

\* VM(memory_size=...): the capacity the machine is constructed with.
memory_size == 36

\* Cycles of the run loop that are followed (a program may loop for ever).
MaxCycles == 5

\* ------------------------------------------------------- VM configuration

NUM_REGS == 16

ACC == 15

\* ------------------------------------------------------- Python integers

B16 == 256 * 256

\* The Python integer n (n small enough to be written down here).
I(n) == <<n \div B16, n % B16>>

Norm(h, l) == <<h + (l \div B16), l % B16>>

Add(x, y) == Norm(x[1] + y[1], x[2] + y[2])

Sub(x, y) == Norm(x[1] - y[1], x[2] - y[2])

Lt(x, y) == x[1] < y[1] \/ (x[1] = y[1] /\ x[2] < y[2])

Le(x, y) == x = y \/ Lt(x, y)

Gt(x, y) == Lt(y, x)

Ge(x, y) == Le(y, x)

\* x & 0xFFFFFFFF
Mask32(x) == <<x[1] % B16, x[2]>>

\* ~x   (that is, -x - 1)
Invert(x) == <<(0 - x[1]) - 1, (B16 - 1) - x[2]>>

IsU32(x) == 0 <= x[1] /\ x[1] < B16 /\ 0 <= x[2] /\ x[2] < B16

\* Bit i of a non-negative integer below 65536.
bit(x, i) == (x \div (2 ^ i)) % 2

\* The bits of a 16-bit limb combined pairwise by f (a 2 x 2 truth table
\* given as f[bx][by]).
Bitwise16(x, y, f) ==
    LET n(i) == f[bit(x, i)][bit(y, i)] * (2 ^ i)
    IN  n(0) + n(1) + n(2) + n(3) + n(4) + n(5) + n(6) + n(7)
        + n(8) + n(9) + n(10) + n(11) + n(12) + n(13) + n(14) + n(15)

bit_and(x, y) == Bitwise16(x, y, [p \in {0, 1} |-> [q \in {0, 1} |-> p * q]])

bit_or(x, y) == Bitwise16(x, y, [p \in {0, 1} |-> [q \in {0, 1} |-> p + q - p * q]])

bit_xor(x, y) == Bitwise16(x, y, [p \in {0, 1} |-> [q \in {0, 1} |-> (p + q) % 2]])

\* x & y, x | y, x ^ y of two non-negative integers
And32(x, y) == <<bit_and(x[1], y[1]), bit_and(x[2], y[2])>>

Or32(x, y) == <<bit_or(x[1], y[1]), bit_or(x[2], y[2])>>

Xor32(x, y) == <<bit_xor(x[1], y[1]), bit_xor(x[2], y[2])>>

\* u * v for 0 <= u, v < 65536, without exceeding 32-bit integers
Mul16(u, v) ==
    LET p1 == u * (v \div 256)
        p0 == u * (v % 256)
    IN  Norm(p1 \div 256, (p1 % 256) * 256 + p0)

\* (x * y) & 0xFFFFFFFF for unsigned 32-bit x, y
MulMask32(x, y) ==
    Mask32(Add(Mul16(x[2], y[2]),
               <<Mul16(x[1], y[2])[2] + Mul16(x[2], y[1])[2], 0>>))

Max(x, y) == IF Gt(y, x) THEN y ELSE x

\* k * x for a small k (k < 32768) and an unsigned 32-bit x
Scale(x, k) == Norm(x[1] * k, x[2] * k)

\* x // d for unsigned 32-bit x and 1 <= d < 2^23: schoolbook division of the
\* four bytes of x, most significant first.
ShortDiv(x, d) ==
    LET b == <<x[1] \div 256, x[1] % 256, x[2] \div 256, x[2] % 256>>
        r1 == b[1] % d
        r2 == (r1 * 256 + b[2]) % d
        r3 == (r2 * 256 + b[3]) % d
    IN  <<(b[1] \div d) * 256 + (r1 * 256 + b[2]) \div d,
          ((r2 * 256 + b[3]) \div d) * 256 + (r3 * 256 + b[4]) \div d>>

\* x // d for unsigned 32-bit x and d >= 2^23: the quotient is below 512 and
\* at most 4 under the quotient of the high limbs.
SmallQuotient(x, d) ==
    LET top == x[1] \div d[1]
        fits(k) == k >= 0 /\ Le(Scale(d, k), x) /\ Gt(Scale(d, k + 1), x)
    IN  <<0, CHOOSE k \in (top - 4) .. top : fits(k)>>

\* x // d for unsigned 32-bit x and d >= 1
FloorDiv(x, d) ==
    IF d[1] < 128 THEN ShortDiv(x, d[1] * B16 + d[2]) ELSE SmallQuotient(x, d)

\* pow(x, e, 2**32), one byte of the exponent at a time.
Sq(x) == MulMask32(x, x)

\* <<x, x^2, x^4, x^8>>
Squares4(x) ==
    LET a == Sq(x)
        b == Sq(a)
        c == Sq(b)
    IN  <<x, a, b, c>>

\* <<x^(2^0), x^(2^1), ..., x^(2^7)>>
Squares8(x) ==
    LET lo == Squares4(x)
    IN  lo \o Squares4(Sq(lo[4]))

\* The product of the entries of the table t selected by the bits of k < 256.
PowByte(t, k) ==
    LET f(i) == IF bit(k, i - 1) = 1 THEN t[i] ELSE <<0, 1>>
        p2(i) == MulMask32(f(i), f(i + 1))
    IN  MulMask32(MulMask32(p2(1), p2(3)), MulMask32(p2(5), p2(7)))

\* acc * x^(the number with base-256 digits ds, least significant first)
RECURSIVE PowBytes(_, _, _)
PowBytes(x, ds, acc) ==
    IF ds = <<>> THEN acc
    ELSE LET t == Squares8(x)
             nxt == MulMask32(acc, PowByte(t, Head(ds)))
         IN  IF nxt = <<0, 0>> THEN <<0, 0>>
             ELSE PowBytes(Sq(t[8]), Tail(ds), nxt)

PowMod32(x, e) ==
    PowBytes(x, <<e[2] % 256, e[2] \div 256, e[1] % 256, e[1] \div 256>>, <<0, 1>>)

\* ------------------------------------------------------- helper functions

\* struct.unpack(">I", b)[0]; the caller has checked Len(b) = 4
read_u32_be(b) == <<b[1] * 256 + b[2], b[3] * 256 + b[4]>>

\* struct.unpack(">i", b)[0]
read_s32_be(b) ==
    LET u == read_u32_be(b) IN IF b[1] >= 128 THEN <<u[1] - B16, u[2]>> ELSE u

\* struct.pack(">I", v); the caller has checked IsU32(v)
pack_u32_be(v) == <<v[1] \div 256, v[1] % 256, v[2] \div 256, v[2] % 256>>

\* clamp_reg clamping to 15 instead of 14
clamp_reg_to_15(r) == IF r < 15 THEN r ELSE 15

clamp_reg(r) == IF r < 14 THEN r ELSE 14

\* -------------------------------------------------------- bytearray slices

\* The index a slice bound i denotes in a sequence of n bytes (n < 65536).
SliceBound(i, n) ==
    IF i[1] < (0 - 1) THEN 0
    ELSE IF i[1] = (0 - 1) THEN (IF i[2] - B16 + n < 0 THEN 0 ELSE i[2] - B16 + n)
    ELSE IF i[1] = 0 THEN (IF i[2] > n THEN n ELSE i[2])
    ELSE n

\* m[lo:hi]
GetSlice(m, lo, hi) ==
    LET s == SliceBound(lo, Len(m))
        e == SliceBound(hi, Len(m))
    IN  IF e <= s THEN <<>> ELSE SubSeq(m, s + 1, e)

\* m[lo:hi] = bytes
SetSlice(m, lo, hi, bytes) ==
    LET s == SliceBound(lo, Len(m))
        e0 == SliceBound(hi, Len(m))
        e == IF e0 < s THEN s ELSE e0
    IN  SubSeq(m, 1, s) \o bytes \o SubSeq(m, e + 1, Len(m))

Four == <<0, 4>>

Ten == <<0, 10>>

\* ------------------------------------------------------------ the machine

\* The fields of the VM object, and the exception (if any) that left run().
cur ==
    [memory |-> memory, regs |-> regs, pc |-> pc, sp |-> sp,
     running |-> running, exc |-> exc]

Raise(vm, e) == [vm EXCEPT !.exc = e]

SetReg(vm, reg, v) == [vm EXCEPT !.regs[reg] = v]

\* self.ops: the opcodes that have a handler
OPCODES ==
    (1 .. 15) \cup (32 .. 35) \cup (48 .. 52) \cup (64 .. 69) \cup {80, 81}

\* VM.fetch: "end" when fewer than 10 bytes remain, else the decoded slot.
fetch(vm) ==
    IF Gt(Add(vm.pc, Ten), I(Len(vm.memory)))
    THEN [kind |-> "end", opcode |-> 0, a |-> <<>>, b |-> <<>>]
    ELSE LET instr == GetSlice(vm.memory, vm.pc, Add(vm.pc, Ten))
         IN  IF Len(instr) < 2
             THEN [kind |-> "IndexError", opcode |-> 0, a |-> <<>>, b |-> <<>>]
             ELSE [kind |-> "ok",
                   opcode |-> instr[1] * 256 + instr[2],
                   a |-> GetSlice(instr, I(2), I(6)),
                   b |-> GetSlice(instr, I(6), I(10))]

\* ------------------------------------------------------- data movement

op_ld(vm, a, b) ==
    IF Len(a) # 4 THEN Raise(vm, "struct.error")
    ELSE IF Len(b) < 4 THEN Raise(vm, "IndexError")
    ELSE LET addr == read_u32_be(a)
             reg == clamp_reg(b[4])
             w == GetSlice(vm.memory, addr, Add(addr, Four))
         IN  IF Len(w) # 4 THEN Raise(vm, "struct.error")
             ELSE SetReg(vm, reg, read_u32_be(w))

op_lc(vm, a, b) ==
    IF Len(a) # 4 THEN Raise(vm, "struct.error")
    ELSE IF Len(b) < 4 THEN Raise(vm, "IndexError")
    ELSE SetReg(vm, clamp_reg(b[4]), read_u32_be(a))

\* op_dr storing the least significant byte first
op_dr_little_endian(vm, a, b) ==
    IF Len(a) < 4 THEN Raise(vm, "IndexError")
    ELSE IF Len(b) # 4 THEN Raise(vm, "struct.error")
    ELSE LET reg == clamp_reg(a[4])
             addr == read_u32_be(b)
             w == pack_u32_be(vm.regs[reg])
         IN  IF ~IsU32(vm.regs[reg]) THEN Raise(vm, "struct.error")
             ELSE [vm EXCEPT !.memory =
                      SetSlice(vm.memory, addr, Add(addr, Four), <<w[4], w[3], w[2], w[1]>>)]

op_dr(vm, a, b) ==
    IF Len(a) < 4 THEN Raise(vm, "IndexError")
    ELSE IF Len(b) # 4 THEN Raise(vm, "struct.error")
    ELSE LET reg == clamp_reg(a[4])
             addr == read_u32_be(b)
         IN  IF ~IsU32(vm.regs[reg]) THEN Raise(vm, "struct.error")
             ELSE [vm EXCEPT !.memory =
                      SetSlice(vm.memory, addr, Add(addr, Four), pack_u32_be(vm.regs[reg]))]

\* op_cpy with the destination index not clamped
op_cpy_dst_unclamped(vm, a, b) ==
    IF Len(a) < 4 \/ Len(b) < 4 THEN Raise(vm, "IndexError")
    ELSE LET src == clamp_reg(a[4])
             dst == IF b[4] < 15 THEN b[4] ELSE 15
         IN  SetReg(vm, dst, vm.regs[src])

op_cpy(vm, a, b) ==
    IF Len(a) < 4 \/ Len(b) < 4 THEN Raise(vm, "IndexError")
    ELSE LET src == clamp_reg(a[4])
             dst == clamp_reg(b[4])
         IN  SetReg(vm, dst, vm.regs[src])

\* ---------------------------------------------- bitwise (results -> r15)

op_or(vm, a, b) ==
    IF Len(a) < 4 \/ Len(b) < 4 THEN Raise(vm, "IndexError")
    ELSE LET r == clamp_reg(a[4])
             s == clamp_reg(b[4])
         IN  SetReg(vm, ACC, Or32(vm.regs[r], vm.regs[s]))

op_and(vm, a, b) ==
    IF Len(a) < 4 \/ Len(b) < 4 THEN Raise(vm, "IndexError")
    ELSE LET r == clamp_reg(a[4])
             s == clamp_reg(b[4])
         IN  SetReg(vm, ACC, And32(vm.regs[r], vm.regs[s]))

\* op_xor storing its result in the first operand register
op_xor_into_operand(vm, a, b) ==
    IF Len(a) < 4 \/ Len(b) < 4 THEN Raise(vm, "IndexError")
    ELSE LET r == clamp_reg(a[4])
             s == clamp_reg(b[4])
         IN  SetReg(vm, r, Xor32(vm.regs[r], vm.regs[s]))

op_xor(vm, a, b) ==
    IF Len(a) < 4 \/ Len(b) < 4 THEN Raise(vm, "IndexError")
    ELSE LET r == clamp_reg(a[4])
             s == clamp_reg(b[4])
         IN  SetReg(vm, ACC, Xor32(vm.regs[r], vm.regs[s]))

op_nand(vm, a, b) ==
    IF Len(a) < 4 \/ Len(b) < 4 THEN Raise(vm, "IndexError")
    ELSE LET r == clamp_reg(a[4])
             s == clamp_reg(b[4])
         IN  SetReg(vm, ACC, Mask32(Invert(And32(vm.regs[r], vm.regs[s]))))

op_nor(vm, a, b) ==
    IF Len(a) < 4 \/ Len(b) < 4 THEN Raise(vm, "IndexError")
    ELSE LET r == clamp_reg(a[4])
             s == clamp_reg(b[4])
         IN  SetReg(vm, ACC, Mask32(Invert(Or32(vm.regs[r], vm.regs[s]))))

\* op_not without the & 0xFFFFFFFF
op_not_unmasked(vm, a, b) ==
    IF Len(a) < 4 THEN Raise(vm, "IndexError")
    ELSE LET r == clamp_reg(a[4])
         IN  SetReg(vm, ACC, Invert(vm.regs[r]))

op_not(vm, a, b) ==
    IF Len(a) < 4 THEN Raise(vm, "IndexError")
    ELSE LET r == clamp_reg(a[4])
         IN  SetReg(vm, ACC, Mask32(Invert(vm.regs[r])))

\* ------------------------------------------------------------ arithmetic

op_add(vm, a, b) ==
    IF Len(a) < 4 \/ Len(b) < 4 THEN Raise(vm, "IndexError")
    ELSE LET r == clamp_reg(a[4])
             s == clamp_reg(b[4])
         IN  SetReg(vm, ACC, Mask32(Add(vm.regs[r], vm.regs[s])))

\* op_sub without the mask
op_sub_unmasked(vm, a, b) ==
    IF Len(a) < 4 \/ Len(b) < 4 THEN Raise(vm, "IndexError")
    ELSE LET r == clamp_reg(a[4])
             s == clamp_reg(b[4])
         IN  SetReg(vm, ACC, Sub(vm.regs[r], vm.regs[s]))

op_sub(vm, a, b) ==
    IF Len(a) < 4 \/ Len(b) < 4 THEN Raise(vm, "IndexError")
    ELSE LET r == clamp_reg(a[4])
             s == clamp_reg(b[4])
         IN  SetReg(vm, ACC, Mask32(Sub(vm.regs[r], vm.regs[s])))

op_mul(vm, a, b) ==
    IF Len(a) < 4 \/ Len(b) < 4 THEN Raise(vm, "IndexError")
    ELSE LET r == clamp_reg(a[4])
             s == clamp_reg(b[4])
         IN  SetReg(vm, ACC, MulMask32(vm.regs[r], vm.regs[s]))

\* op_div without max(divisor, 1): ZeroDivisionError
op_div_unguarded(vm, a, b) ==
    IF Len(a) < 4 \/ Len(b) < 4 THEN Raise(vm, "IndexError")
    ELSE LET r == clamp_reg(a[4])
             s == clamp_reg(b[4])
         IN  IF vm.regs[s] = <<0, 0>> THEN Raise(vm, "ZeroDivisionError")
             ELSE SetReg(vm, ACC, FloorDiv(vm.regs[r], vm.regs[s]))

op_div(vm, a, b) ==
    IF Len(a) < 4 \/ Len(b) < 4 THEN Raise(vm, "IndexError")
    ELSE LET r == clamp_reg(a[4])
             s == clamp_reg(b[4])
         IN  SetReg(vm, ACC, FloorDiv(vm.regs[r], Max(vm.regs[s], <<0, 1>>)))

op_exp(vm, a, b) ==
    IF Len(a) < 4 \/ Len(b) < 4 THEN Raise(vm, "IndexError")
    ELSE LET r == clamp_reg(a[4])
             s == clamp_reg(b[4])
         IN  SetReg(vm, ACC, PowMod32(vm.regs[r], vm.regs[s]))

\* ---------------------------------------------------------- control flow

op_jmp(vm, a, b) ==
    IF Len(a) # 4 THEN Raise(vm, "struct.error")
    ELSE [vm EXCEPT !.pc = read_u32_be(a)]

\* op_jmr adding the offset to the address of the instruction itself
op_jmr_from_own_address(vm, a, b) ==
    IF Len(a) # 4 THEN Raise(vm, "struct.error")
    ELSE LET offset == read_s32_be(a)
         IN  [vm EXCEPT !.pc = Add(Sub(vm.pc, Ten), offset)]

op_jmr(vm, a, b) ==
    IF Len(a) # 4 THEN Raise(vm, "struct.error")
    ELSE LET offset == read_s32_be(a)
         IN  [vm EXCEPT !.pc = Add(vm.pc, offset)]

op_cmp(vm, a, b) ==
    IF Len(a) < 4 THEN Raise(vm, "IndexError")
    ELSE IF Len(b) # 4 THEN Raise(vm, "struct.error")
    ELSE LET reg == clamp_reg(a[4])
             addr == read_u32_be(b)
         IN  IF vm.regs[reg] # <<0, 0>> THEN [vm EXCEPT !.pc = addr] ELSE vm

op_cmr(vm, a, b) ==
    IF Len(a) < 4 THEN Raise(vm, "IndexError")
    ELSE IF Len(b) # 4 THEN Raise(vm, "struct.error")
    ELSE LET reg == clamp_reg(a[4])
             offset == read_s32_be(b)
         IN  IF vm.regs[reg] # <<0, 0>> THEN [vm EXCEPT !.pc = Add(vm.pc, offset)] ELSE vm

\* ----------------------------------------------------------------- stack

op_psh(vm, a, b) ==
    IF Len(a) < 4 THEN Raise(vm, "IndexError")
    ELSE LET reg == clamp_reg(a[4])
             sp1 == Sub(vm.sp, Four)
         IN  IF ~IsU32(vm.regs[reg]) THEN [vm EXCEPT !.sp = sp1, !.exc = "struct.error"]
             ELSE [vm EXCEPT !.sp = sp1,
                             !.memory = SetSlice(vm.memory, sp1, Add(sp1, Four),
                                                 pack_u32_be(vm.regs[reg]))]

op_pop(vm, a, b) ==
    IF Len(a) < 4 THEN Raise(vm, "IndexError")
    ELSE LET reg == clamp_reg(a[4])
             w == GetSlice(vm.memory, vm.sp, Add(vm.sp, Four))
         IN  IF Len(w) # 4 THEN Raise(vm, "struct.error")
             ELSE [vm EXCEPT !.regs[reg] = read_u32_be(w), !.sp = Add(vm.sp, Four)]

op_movsp(vm, a, b) ==
    IF Len(a) # 4 THEN Raise(vm, "struct.error")
    ELSE LET offset == read_s32_be(a)
         IN  [vm EXCEPT !.sp = Add(vm.sp, offset)]

\* -------------------------------------------------------- function calls

op_call(vm, a, b) ==
    IF Len(a) # 4 THEN Raise(vm, "struct.error")
    ELSE LET addr == read_u32_be(a)
             sp1 == Sub(vm.sp, Four)
         IN  IF ~IsU32(vm.pc) THEN [vm EXCEPT !.sp = sp1, !.exc = "struct.error"]
             ELSE [vm EXCEPT !.sp = sp1,
                             !.memory = SetSlice(vm.memory, sp1, Add(sp1, Four),
                                                 pack_u32_be(vm.pc)),
                             !.pc = addr]

op_ret(vm, a, b) ==
    LET w == GetSlice(vm.memory, vm.sp, Add(vm.sp, Four))
    IN  IF Len(w) # 4 THEN Raise(vm, "struct.error")
        ELSE [vm EXCEPT !.pc = read_u32_be(w), !.sp = Add(vm.sp, Four)]

\* ----------------------------------------------------------- comparisons

AllOnes == <<B16 - 1, B16 - 1>>

set_acc(vm, cond) == SetReg(vm, ACC, IF cond THEN AllOnes ELSE <<0, 0>>)

op_gt(vm, a, b) ==
    IF Len(a) < 4 \/ Len(b) < 4 THEN Raise(vm, "IndexError")
    ELSE LET r == clamp_reg(a[4])
             s == clamp_reg(b[4])
         IN  set_acc(vm, Gt(vm.regs[r], vm.regs[s]))

op_lt(vm, a, b) ==
    IF Len(a) < 4 \/ Len(b) < 4 THEN Raise(vm, "IndexError")
    ELSE LET r == clamp_reg(a[4])
             s == clamp_reg(b[4])
         IN  set_acc(vm, Lt(vm.regs[r], vm.regs[s]))

op_eq(vm, a, b) ==
    IF Len(a) < 4 \/ Len(b) < 4 THEN Raise(vm, "IndexError")
    ELSE LET r == clamp_reg(a[4])
             s == clamp_reg(b[4])
         IN  set_acc(vm, vm.regs[r] = vm.regs[s])

op_ne(vm, a, b) ==
    IF Len(a) < 4 \/ Len(b) < 4 THEN Raise(vm, "IndexError")
    ELSE LET r == clamp_reg(a[4])
             s == clamp_reg(b[4])
         IN  set_acc(vm, vm.regs[r] # vm.regs[s])

\* op_ge comparing with > instead of >=
op_ge_strict(vm, a, b) ==
    IF Len(a) < 4 \/ Len(b) < 4 THEN Raise(vm, "IndexError")
    ELSE LET r == clamp_reg(a[4])
             s == clamp_reg(b[4])
         IN  set_acc(vm, Gt(vm.regs[r], vm.regs[s]))

op_ge(vm, a, b) ==
    IF Len(a) < 4 \/ Len(b) < 4 THEN Raise(vm, "IndexError")
    ELSE LET r == clamp_reg(a[4])
             s == clamp_reg(b[4])
         IN  set_acc(vm, Ge(vm.regs[r], vm.regs[s]))

op_le(vm, a, b) ==
    IF Len(a) < 4 \/ Len(b) < 4 THEN Raise(vm, "IndexError")
    ELSE LET r == clamp_reg(a[4])
             s == clamp_reg(b[4])
         IN  set_acc(vm, Le(vm.regs[r], vm.regs[s]))

\* ------------------------------------------------------- indirect memory

op_ldi(vm, a, b) ==
    IF Len(a) < 4 \/ Len(b) < 4 THEN Raise(vm, "IndexError")
    ELSE LET addr_reg == clamp_reg(a[4])
             dst_reg == clamp_reg(b[4])
             addr == vm.regs[addr_reg]
             w == GetSlice(vm.memory, addr, Add(addr, Four))
         IN  IF Len(w) # 4 THEN Raise(vm, "struct.error")
             ELSE SetReg(vm, dst_reg, read_u32_be(w))

\* op_sti with the source index not clamped
op_sti_src_unclamped(vm, a, b) ==
    IF Len(a) < 4 \/ Len(b) < 4 THEN Raise(vm, "IndexError")
    ELSE LET src_reg == IF a[4] < 15 THEN a[4] ELSE 15
             addr_reg == clamp_reg(b[4])
             addr == vm.regs[addr_reg]
         IN  IF ~IsU32(vm.regs[src_reg]) THEN Raise(vm, "struct.error")
             ELSE [vm EXCEPT !.memory =
                      SetSlice(vm.memory, addr, Add(addr, Four),
                               pack_u32_be(vm.regs[src_reg]))]

op_sti(vm, a, b) ==
    IF Len(a) < 4 \/ Len(b) < 4 THEN Raise(vm, "IndexError")
    ELSE LET src_reg == clamp_reg(a[4])
             addr_reg == clamp_reg(b[4])
             addr == vm.regs[addr_reg]
         IN  IF ~IsU32(vm.regs[src_reg]) THEN Raise(vm, "struct.error")
             ELSE [vm EXCEPT !.memory =
                      SetSlice(vm.memory, addr, Add(addr, Four),
                               pack_u32_be(vm.regs[src_reg]))]

\* self.ops.get(opcode): the handler's effect on the machine
Handler(opcode, vm, a, b) ==
    CASE opcode = 1 -> op_ld(vm, a, b)
      [] opcode = 2 -> op_lc(vm, a, b)
      [] opcode = 3 -> op_dr(vm, a, b)
      [] opcode = 4 -> op_cpy(vm, a, b)
      [] opcode = 5 -> op_or(vm, a, b)
      [] opcode = 6 -> op_and(vm, a, b)
      [] opcode = 7 -> op_xor(vm, a, b)
      [] opcode = 8 -> op_nand(vm, a, b)
      [] opcode = 9 -> op_nor(vm, a, b)
      [] opcode = 10 -> op_not(vm, a, b)
      [] opcode = 11 -> op_add(vm, a, b)
      [] opcode = 12 -> op_sub(vm, a, b)
      [] opcode = 13 -> op_mul(vm, a, b)
      [] opcode = 14 -> op_div(vm, a, b)
      [] opcode = 15 -> op_exp(vm, a, b)
      [] opcode = 32 -> op_jmp(vm, a, b)
      [] opcode = 33 -> op_jmr(vm, a, b)
      [] opcode = 34 -> op_cmp(vm, a, b)
      [] opcode = 35 -> op_cmr(vm, a, b)
      [] opcode = 48 -> op_psh(vm, a, b)
      [] opcode = 49 -> op_pop(vm, a, b)
      [] opcode = 50 -> op_movsp(vm, a, b)
      [] opcode = 51 -> op_call(vm, a, b)
      [] opcode = 52 -> op_ret(vm, a, b)
      [] opcode = 64 -> op_gt(vm, a, b)
      [] opcode = 65 -> op_lt(vm, a, b)
      [] opcode = 66 -> op_eq(vm, a, b)
      [] opcode = 67 -> op_ne(vm, a, b)
      [] opcode = 68 -> op_ge(vm, a, b)
      [] opcode = 69 -> op_le(vm, a, b)
      [] opcode = 80 -> op_ldi(vm, a, b)
      [] opcode = 81 -> op_sti(vm, a, b)

\* The loop body skipping an opcode without a handler instead of stopping
Execute_skipping_unknown(vm, f) ==
    IF f.kind = "end" THEN [vm EXCEPT !.running = FALSE]
    ELSE IF f.kind = "IndexError" THEN Raise(vm, "IndexError")
    ELSE LET vm1 == [vm EXCEPT !.pc = Add(vm.pc, Ten)]
         IN  IF f.opcode \notin OPCODES THEN vm1 ELSE Handler(f.opcode, vm1, f.a, f.b)

\* VM.run, lines 118-126: what the loop body does with what fetch returned.
Execute(vm, f) ==
    IF f.kind = "end" THEN [vm EXCEPT !.running = FALSE]
    ELSE IF f.kind = "IndexError" THEN Raise(vm, "IndexError")
    ELSE LET vm1 == [vm EXCEPT !.pc = Add(vm.pc, Ten)]
         IN  IF f.opcode \notin OPCODES THEN [vm1 EXCEPT !.running = FALSE]
             ELSE Handler(f.opcode, vm1, f.a, f.b)

\* One pass of the body of VM.run's loop, from a machine that is running.
Cycle(vm) == Execute(vm, fetch(vm))

\* ------------------------------------------------------------- programs

\* One 10-byte instruction: 2 bytes opcode, operand fields A and B.
Ins(opcode, a, b) == <<opcode \div 256, opcode % 256>> \o a \o b

\* An operand field holding the 32-bit two's complement of n.
W(n) == pack_u32_be(Mask32(I(n)))

\* An operand field naming register i in its last byte.
R(i) == <<0, 0, 0, i>>

Z == <<0, 0, 0, 0>>

FF == <<255, 255, 255, 255>>

\* The last in-bounds word address; it lies above the program's slots.
DataAddr == memory_size - 4

\* The instructions the programs are made of.
InstrSet ==
    { Ins(1, W(DataAddr), R(1)), Ins(1, W(memory_size - 1), R(1)),
      Ins(2, FF, R(0)), Ins(2, W(1), R(1)), Ins(2, W(DataAddr), R(0)),
      Ins(2, W(memory_size - 2), R(1)), Ins(2, <<128, 255, 1, 2>>, R(15)),
      Ins(3, R(0), W(DataAddr)), Ins(3, R(0), W(memory_size - 1)),
      Ins(3, R(0), W(memory_size)),
      Ins(4, R(0), R(15)),
      Ins(5, R(0), R(1)), Ins(6, R(0), R(1)), Ins(7, R(0), R(1)),
      Ins(8, R(0), R(1)), Ins(9, R(0), R(1)), Ins(10, R(0), Z),
      Ins(11, R(0), R(1)), Ins(12, R(0), R(1)), Ins(13, R(0), R(1)),
      Ins(14, R(0), R(1)), Ins(15, R(0), R(1)),
      Ins(32, W(20), Z), Ins(33, W(0 - 30), Z), Ins(33, W(10), Z),
      Ins(34, R(0), W(20)), Ins(35, R(1), W(10)),
      Ins(48, R(0), Z), Ins(49, R(1), Z), Ins(50, W(8), Z),
      Ins(50, W(0 - memory_size), Z),
      Ins(51, W(20), Z), Ins(52, Z, Z),
      Ins(64, R(0), R(1)), Ins(65, R(0), R(1)), Ins(66, R(0), R(1)),
      Ins(67, R(0), R(1)), Ins(68, R(0), R(1)), Ins(69, R(0), R(1)),
      Ins(80, R(0), R(2)), Ins(81, R(1), R(0)), Ins(81, R(0), R(0)),
      Ins(0, Z, Z) }

\* The instructions a program starts with.
FirstSet ==
    { Ins(2, FF, R(0)), Ins(2, W(DataAddr), R(0)), Ins(2, <<128, 255, 1, 2>>, R(15)),
      Ins(10, R(0), Z), Ins(32, W(20), Z), Ins(33, W(0 - 30), Z),
      Ins(33, W(0 - (memory_size + 15)), Z),
      Ins(50, W(8), Z), Ins(50, W(0 - memory_size), Z), Ins(51, W(20), Z),
      Ins(0, Z, Z) }

\* Program files of three instructions.
SlotPrograms == { i1 \o i2 \o i3 : i1 \in FirstSet, i2 \in InstrSet, i3 \in InstrSet }

\* Program files that go on after the third instruction with the opcode and
\* field A of LC 9, and store a word at the end of memory on the way there.
LongPrograms ==
    { i1 \o Ins(3, R(0), W(memory_size)) \o i3 \o SubSeq(Ins(2, W(9), Z), 1, 6) :
         i1 \in FirstSet, i3 \in InstrSet }

\* Program files, loaded at address 0.
Programs == SlotPrograms \cup LongPrograms

\* ---------------------------------------------------------------- actions

\* VM.__init__
Init ==
    /\ memory = [i \in 1 .. memory_size |-> 0]
    /\ regs = [i \in 0 .. NUM_REGS - 1 |-> <<0, 0>>]
    /\ pc = <<0, 0>>
    /\ sp = I(memory_size)
    /\ running = TRUE
    /\ exc = "none"
    /\ loaded = FALSE
    /\ cycles = 0
    /\ hist = <<>>

\* vm.memory[:len(prog)] = prog
Load ==
    /\ ~loaded
    /\ \E prog \in Programs :
          memory' = SetSlice(memory, <<0, 0>>, I(Len(prog)), prog)
    /\ loaded' = TRUE
    /\ UNCHANGED <<regs, pc, sp, running, exc, cycles, hist>>

\* while self.running, until an exception leaves run()
CanRun == loaded /\ running /\ exc = "none" /\ cycles < MaxCycles

\* A cheap consequence of "fetch decodes opcode c": when PC is an offset with
\* two bytes after it, those two bytes spell c.
MayFetch(c) ==
    IF pc[1] # 0 \/ pc[2] + 2 > Len(memory) THEN TRUE
    ELSE memory[pc[2] + 1] * 256 + memory[pc[2] + 2] = c

\* The opcodes whose handlers assign PC: JMP, JMR, CMP, CMR, CALL, RET.
PcOps == {32, 33, 34, 35, 51, 52}

\* The last two cycles: what was fetched, the machine before the cycle, and
\* whether every instruction dispatched so far left PC to the loop.
Entry(f) ==
    [kind |-> f.kind, opcode |-> f.opcode, a |-> f.a, b |-> f.b, pre |-> cur,
     straight |-> (IF hist = <<>> THEN TRUE ELSE hist[Len(hist)].straight)
                      /\ ~(f.kind = "ok" /\ f.opcode \in PcOps)]

Remember(f) ==
    hist' = IF Len(hist) < 2 THEN Append(hist, Entry(f)) ELSE <<hist[2], Entry(f)>>

Commit(vm) ==
    /\ memory' = vm.memory
    /\ regs' = vm.regs
    /\ pc' = vm.pc
    /\ sp' = vm.sp
    /\ running' = vm.running
    /\ exc' = vm.exc
    /\ cycles' = cycles + 1
    /\ loaded' = loaded

\* One cycle of run(): the machine and the history after it.
Step(f) ==
    /\ Commit(Execute(cur, f))
    /\ Remember(f)

\* fetch returns None: fewer than 10 bytes remain at PC
EndOfProgram ==
    /\ CanRun
    /\ LET f == fetch(cur) IN f.kind = "end" /\ Step(f)

\* instr[0] or instr[1] of a slice that came out empty
FetchError ==
    /\ CanRun
    /\ LET f == fetch(cur) IN f.kind = "IndexError" /\ Step(f)

UnknownOpcode ==
    /\ CanRun
    /\ LET f == fetch(cur) IN f.kind = "ok" /\ f.opcode \notin OPCODES /\ Step(f)

LD ==
    /\ CanRun
    /\ MayFetch(1)
    /\ LET f == fetch(cur) IN f.kind = "ok" /\ f.opcode = 1 /\ Step(f)

LC ==
    /\ CanRun
    /\ MayFetch(2)
    /\ LET f == fetch(cur) IN f.kind = "ok" /\ f.opcode = 2 /\ Step(f)

DR ==
    /\ CanRun
    /\ MayFetch(3)
    /\ LET f == fetch(cur) IN f.kind = "ok" /\ f.opcode = 3 /\ Step(f)

CPY ==
    /\ CanRun
    /\ MayFetch(4)
    /\ LET f == fetch(cur) IN f.kind = "ok" /\ f.opcode = 4 /\ Step(f)

OR ==
    /\ CanRun
    /\ MayFetch(5)
    /\ LET f == fetch(cur) IN f.kind = "ok" /\ f.opcode = 5 /\ Step(f)

AND ==
    /\ CanRun
    /\ MayFetch(6)
    /\ LET f == fetch(cur) IN f.kind = "ok" /\ f.opcode = 6 /\ Step(f)

XOR ==
    /\ CanRun
    /\ MayFetch(7)
    /\ LET f == fetch(cur) IN f.kind = "ok" /\ f.opcode = 7 /\ Step(f)

NAND ==
    /\ CanRun
    /\ MayFetch(8)
    /\ LET f == fetch(cur) IN f.kind = "ok" /\ f.opcode = 8 /\ Step(f)

NOR ==
    /\ CanRun
    /\ MayFetch(9)
    /\ LET f == fetch(cur) IN f.kind = "ok" /\ f.opcode = 9 /\ Step(f)

NOT ==
    /\ CanRun
    /\ MayFetch(10)
    /\ LET f == fetch(cur) IN f.kind = "ok" /\ f.opcode = 10 /\ Step(f)

ADD ==
    /\ CanRun
    /\ MayFetch(11)
    /\ LET f == fetch(cur) IN f.kind = "ok" /\ f.opcode = 11 /\ Step(f)

SUB ==
    /\ CanRun
    /\ MayFetch(12)
    /\ LET f == fetch(cur) IN f.kind = "ok" /\ f.opcode = 12 /\ Step(f)

MUL ==
    /\ CanRun
    /\ MayFetch(13)
    /\ LET f == fetch(cur) IN f.kind = "ok" /\ f.opcode = 13 /\ Step(f)

DIV ==
    /\ CanRun
    /\ MayFetch(14)
    /\ LET f == fetch(cur) IN f.kind = "ok" /\ f.opcode = 14 /\ Step(f)

EXP ==
    /\ CanRun
    /\ MayFetch(15)
    /\ LET f == fetch(cur) IN f.kind = "ok" /\ f.opcode = 15 /\ Step(f)

JMP ==
    /\ CanRun
    /\ MayFetch(32)
    /\ LET f == fetch(cur) IN f.kind = "ok" /\ f.opcode = 32 /\ Step(f)

JMR ==
    /\ CanRun
    /\ MayFetch(33)
    /\ LET f == fetch(cur) IN f.kind = "ok" /\ f.opcode = 33 /\ Step(f)

CMP ==
    /\ CanRun
    /\ MayFetch(34)
    /\ LET f == fetch(cur) IN f.kind = "ok" /\ f.opcode = 34 /\ Step(f)

CMR ==
    /\ CanRun
    /\ MayFetch(35)
    /\ LET f == fetch(cur) IN f.kind = "ok" /\ f.opcode = 35 /\ Step(f)

PSH ==
    /\ CanRun
    /\ MayFetch(48)
    /\ LET f == fetch(cur) IN f.kind = "ok" /\ f.opcode = 48 /\ Step(f)

POP ==
    /\ CanRun
    /\ MayFetch(49)
    /\ LET f == fetch(cur) IN f.kind = "ok" /\ f.opcode = 49 /\ Step(f)

MOVSP ==
    /\ CanRun
    /\ MayFetch(50)
    /\ LET f == fetch(cur) IN f.kind = "ok" /\ f.opcode = 50 /\ Step(f)

CALL ==
    /\ CanRun
    /\ MayFetch(51)
    /\ LET f == fetch(cur) IN f.kind = "ok" /\ f.opcode = 51 /\ Step(f)

RET ==
    /\ CanRun
    /\ MayFetch(52)
    /\ LET f == fetch(cur) IN f.kind = "ok" /\ f.opcode = 52 /\ Step(f)

GT ==
    /\ CanRun
    /\ MayFetch(64)
    /\ LET f == fetch(cur) IN f.kind = "ok" /\ f.opcode = 64 /\ Step(f)

LT ==
    /\ CanRun
    /\ MayFetch(65)
    /\ LET f == fetch(cur) IN f.kind = "ok" /\ f.opcode = 65 /\ Step(f)

EQ ==
    /\ CanRun
    /\ MayFetch(66)
    /\ LET f == fetch(cur) IN f.kind = "ok" /\ f.opcode = 66 /\ Step(f)

NE ==
    /\ CanRun
    /\ MayFetch(67)
    /\ LET f == fetch(cur) IN f.kind = "ok" /\ f.opcode = 67 /\ Step(f)

GE ==
    /\ CanRun
    /\ MayFetch(68)
    /\ LET f == fetch(cur) IN f.kind = "ok" /\ f.opcode = 68 /\ Step(f)

LE ==
    /\ CanRun
    /\ MayFetch(69)
    /\ LET f == fetch(cur) IN f.kind = "ok" /\ f.opcode = 69 /\ Step(f)

LDI ==
    /\ CanRun
    /\ MayFetch(80)
    /\ LET f == fetch(cur) IN f.kind = "ok" /\ f.opcode = 80 /\ Step(f)

STI ==
    /\ CanRun
    /\ MayFetch(81)
    /\ LET f == fetch(cur) IN f.kind = "ok" /\ f.opcode = 81 /\ Step(f)

Next ==
    \/ Load
    \/ EndOfProgram
    \/ FetchError
    \/ UnknownOpcode
    \/ LD \/ LC \/ DR \/ CPY
    \/ OR \/ AND \/ XOR \/ NAND \/ NOR \/ NOT
    \/ ADD \/ SUB \/ MUL \/ DIV \/ EXP
    \/ JMP \/ JMR \/ CMP \/ CMR
    \/ PSH \/ POP \/ MOVSP
    \/ CALL \/ RET
    \/ GT \/ LT \/ EQ \/ NE \/ GE \/ LE
    \/ LDI \/ STI

Spec == Init /\ [][Next]_vars

\* ------------------------------------------------------------ the claims

\* The cycle that led to the current state, and the one before it.
Last == hist[Len(hist)]

Ran(opcode) == loaded /\ Len(hist) > 0 /\ Last.kind = "ok" /\ Last.opcode = opcode

RanTwo(first, second) ==
    /\ loaded /\ Len(hist) = 2
    /\ hist[1].kind = "ok" /\ hist[1].opcode = first
    /\ hist[2].kind = "ok" /\ hist[2].opcode = second

\* run() is over: the loop ended, or an exception left it.
Stopped == ~running \/ exc # "none"

\* The address of the 4-byte memory access of a dispatched LD, DR, LDI, STI,
\* PSH, POP, CALL or RET.
AccessAddr(e) ==
    CASE e.opcode = 1 -> read_u32_be(e.a)
      [] e.opcode = 3 -> read_u32_be(e.b)
      [] e.opcode = 80 -> e.pre.regs[clamp_reg(e.a[4])]
      [] e.opcode = 81 -> e.pre.regs[clamp_reg(e.b[4])]
      [] e.opcode \in {48, 51} -> Sub(e.pre.sp, Four)
      [] e.opcode \in {49, 52} -> e.pre.sp

PastEnd(e) ==
    /\ e.kind = "ok"
    /\ e.opcode \in {1, 3, 80, 81, 48, 49, 51, 52}
    /\ Len(e.a) = 4 /\ Len(e.b) = 4
    /\ Gt(Add(AccessAddr(e), Four), I(memory_size))

\* C1: an LD, DR, LDI, STI, PSH, POP, CALL or RET whose access has
\* address + 4 > MEM_SIZE stops the machine, and changes no register and no
\* memory byte.
C1_MemoryFaultHalts ==
    (loaded /\ Len(hist) > 0 /\ PastEnd(Last))
        => (Stopped /\ regs = Last.pre.regs /\ memory = Last.pre.memory)

\* C2: the memory holds exactly MEM_SIZE bytes in every reachable state.
C2_MemoryFixedCapacity == Len(memory) = memory_size

\* C3: PSH(r) followed immediately by POP(d) restores SP to its value before
\* the PSH and leaves the pushed value in the popped register.
C3_PushPopRoundTrip ==
    (RanTwo(48, 49) /\ Len(hist[1].a) = 4 /\ Len(hist[2].a) = 4)
        => /\ sp = hist[1].pre.sp
           /\ regs[clamp_reg(hist[2].a[4])] = hist[1].pre.regs[clamp_reg(hist[1].a[4])]

\* C4: a CALL at address P whose target holds a RET: after the CALL and the
\* RET, PC = P + 10 and SP is what it was before the CALL.
C4_CallRetReturns ==
    (RanTwo(51, 52) /\ Len(hist[1].a) = 4)
        => /\ pc = Add(hist[1].pre.pc, Ten)
           /\ sp = hist[1].pre.sp

\* The machine the handler of the last cycle was called on: PC already advanced.
Dispatched == [Last.pre EXCEPT !.pc = Add(Last.pre.pc, Ten)]

\* The last cycle dispatched a handler whose operand fields were complete.
RanHandler ==
    /\ loaded /\ Len(hist) > 0
    /\ Last.kind = "ok" /\ Last.opcode \in OPCODES
    /\ Len(Last.a) = 4 /\ Len(Last.b) = 4

\* Opcodes that read a register index from field A, and from field B.
RegInA == {3, 4} \cup (5 .. 15) \cup {34, 35, 48, 49} \cup (64 .. 69) \cup {80, 81}

RegInB == {1, 2, 4} \cup (5 .. 9) \cup (11 .. 15) \cup (64 .. 69) \cup {80, 81}

\* Operand field f with register index i in its last byte.
WithReg(f, i) == <<f[1], f[2], f[3], i>>

\* Field f with an encoded index 15 rewritten to 14.
As14(f) == IF f[4] = 15 THEN WithReg(f, 14) ELSE f

\* C5: an instruction encoding register index 15 in an operand position has
\* the same successor state as the same instruction encoding index 14, for
\* every opcode with a register operand and for each position (and both).
C5_Index15ActsAs14 ==
    RanHandler =>
        LET op == Last.opcode
            a == Last.a
            b == Last.b
        IN  /\ op \in RegInA =>
                 Handler(op, Dispatched, WithReg(a, 15), b)
                     = Handler(op, Dispatched, WithReg(a, 14), b)
            /\ op \in RegInB =>
                 Handler(op, Dispatched, a, WithReg(b, 15))
                     = Handler(op, Dispatched, a, WithReg(b, 14))
            /\ op \in RegInA \cap RegInB =>
                 Handler(op, Dispatched, WithReg(a, 15), WithReg(b, 15))
                     = Handler(op, Dispatched, WithReg(a, 14), WithReg(b, 14))
            /\ cur = Handler(op, Dispatched,
                             IF op \in RegInA THEN As14(a) ELSE a,
                             IF op \in RegInB THEN As14(b) ELSE b)

\* A CPY r0 -> "r15" ran with r0 = 0xFFFFFFFF: register 14 received the copy.
C5_Witness ==
    /\ Ran(4) /\ Last.b = R(15) /\ Last.a = R(0)
    /\ Last.pre.regs[0] = AllOnes /\ Last.pre.regs[14] = <<0, 0>>
    /\ regs[14] = AllOnes /\ regs[15] = <<0, 0>>

\* Register indices the claims about two-operand instructions are tried on.
SampleRegs == {0, 1, 2, 14}

TwoTo32 == <<B16, 0>>

\* The bytes of an unsigned 32-bit word, least significant first.
BytesLE(x) == <<x[2] % 256, x[2] \div 256, x[1] % 256, x[1] \div 256>>

\* (x * y) mod 2^32 by the schoolbook product of the bytes of x and y: the
\* byte products of weight 256^0 .. 256^3 (heavier ones are multiples of 2^32).
SchoolbookMul(x, y) ==
    LET p == BytesLE(x)
        q == BytesLE(y)
        s0 == p[1] * q[1]
        s1 == p[1] * q[2] + p[2] * q[1]
        s2 == p[1] * q[3] + p[2] * q[2] + p[3] * q[1]
        s3 == p[1] * q[4] + p[2] * q[3] + p[3] * q[2] + p[4] * q[1]
    IN  Mask32(Norm(s2 + s3 * 256, s0 + s1 * 256))

\* res = (x op y) mod 2^32 for ADD (11), SUB (12), MUL (13)
IsWrapped(op, x, y, res) ==
    /\ IsU32(res)
    /\ CASE op = 11 -> Sub(Add(x, y), res) \in {<<0, 0>>, TwoTo32}
         [] op = 12 -> Sub(Sub(x, y), res) \in {<<0, 0>>, <<0 - B16, 0>>}
         [] op = 13 -> res = SchoolbookMul(x, y)

\* C6: ADD, SUB and MUL set register 15 to (regs[r] op regs[s]) mod 2^32, for
\* the instruction that ran and for every pair of operand registers.
C6_AddSubMulWrap ==
    (RanHandler /\ Last.opcode \in {11, 12, 13}) =>
        /\ exc = "none"
        /\ IsWrapped(Last.opcode, Last.pre.regs[clamp_reg(Last.a[4])],
                     Last.pre.regs[clamp_reg(Last.b[4])], regs[ACC])
        /\ \A op \in {11, 12, 13} : \A r \in SampleRegs : \A s \in SampleRegs :
              IsWrapped(op, Last.pre.regs[r], Last.pre.regs[s],
                        Handler(op, Dispatched, R(r), R(s)).regs[ACC])

\* ADD ran on 0xFFFFFFFF and 1 and left 0 in register 15.
C6_Witness ==
    /\ Ran(11) /\ Last.a = R(0) /\ Last.b = R(1)
    /\ Last.pre.regs[0] = AllOnes /\ Last.pre.regs[1] = <<0, 1>>
    /\ regs[ACC] = <<0, 0>>

\* x * y for unsigned 32-bit x, y when it is below 2^32, and 2^32 otherwise.
ProductUpTo32(x, y) ==
    IF x[1] > 0 /\ y[1] > 0 THEN TwoTo32
    ELSE LET s == IF x[1] = 0 THEN x[2] ELSE y[2]
             b == IF x[1] = 0 THEN y ELSE x
             hi == Mul16(s, b[1])
             all == Add(<<hi[2], 0>>, Mul16(s, b[2]))
         IN  IF hi[1] > 0 \/ Ge(all, TwoTo32) THEN TwoTo32 ELSE all

\* q is the unsigned floor quotient of x by d (d >= 1): q * d <= x < q * d + d
IsQuotient(q, x, d) ==
    LET p == ProductUpTo32(q, d)
    IN  IsU32(q) /\ Le(p, x) /\ Lt(Sub(x, p), d)

\* q is what DIV must leave for dividend x and divisor d
IsDivResult(q, x, d) == IF d = <<0, 0>> THEN q = x ELSE IsQuotient(q, x, d)

\* C7: DIV never faults; with divisor 0 register 15 gets what divisor 1
\* gives, the dividend; with a non-zero divisor the unsigned floor quotient.
C7_DivZeroAsOne ==
    (RanHandler /\ Last.opcode = 14) =>
        /\ running /\ exc = "none"
        /\ IsDivResult(regs[ACC], Last.pre.regs[clamp_reg(Last.a[4])],
                       Last.pre.regs[clamp_reg(Last.b[4])])
        /\ \A r \in SampleRegs : \A s \in SampleRegs :
              LET out == Handler(14, Dispatched, R(r), R(s))
                  one == Handler(14, [Dispatched EXCEPT !.regs[s] = <<0, 1>>], R(r), R(s))
              IN  /\ out.running /\ out.exc = "none"
                  /\ IsDivResult(out.regs[ACC], Last.pre.regs[r], Last.pre.regs[s])
                  /\ (Last.pre.regs[s] = <<0, 0>> /\ r # s) => out.regs[ACC] = one.regs[ACC]

\* DIV ran with dividend 0xFFFFFFFF and divisor 0: the machine still runs and
\* register 15 holds the dividend.
C7_Witness ==
    /\ Ran(14) /\ Last.a = R(0) /\ Last.b = R(1)
    /\ Last.pre.regs[0] = AllOnes /\ Last.pre.regs[1] = <<0, 0>>
    /\ regs[ACC] = AllOnes /\ running /\ exc = "none"

\* Unsigned order of two 32-bit words: the order of their big-endian bytes.
BytesLess(p, q) == \E i \in 1 .. 4 : p[i] < q[i] /\ \A j \in 1 .. (i - 1) : p[j] = q[j]

WordLess(x, y) == BytesLess(pack_u32_be(x), pack_u32_be(y))

\* The comparison opcode op (GT 64 .. LE 69) is true of x, y.
Compares(op, x, y) ==
    CASE op = 64 -> WordLess(y, x)
      [] op = 65 -> WordLess(x, y)
      [] op = 66 -> x = y
      [] op = 67 -> x # y
      [] op = 68 -> ~WordLess(x, y)
      [] op = 69 -> ~WordLess(y, x)

IsTruthWord(op, x, y, res) == res = (IF Compares(op, x, y) THEN AllOnes ELSE <<0, 0>>)

\* C8: every comparison opcode leaves exactly 0xFFFFFFFF in register 15 when
\* the unsigned comparison is true and exactly 0 when it is false, for every
\* ordered pair of operand registers, equal values included.
C8_CompareAllOnesOrZero ==
    (RanHandler /\ Last.opcode \in 64 .. 69) =>
        /\ exc = "none"
        /\ IsTruthWord(Last.opcode, Last.pre.regs[clamp_reg(Last.a[4])],
                       Last.pre.regs[clamp_reg(Last.b[4])], regs[ACC])
        /\ \A op \in 64 .. 69 : \A r \in SampleRegs : \A s \in SampleRegs :
              IsTruthWord(op, Last.pre.regs[r], Last.pre.regs[s],
                          Handler(op, Dispatched, R(r), R(s)).regs[ACC])

\* GE ran on two equal values and left 0xFFFFFFFF; the registers also hold
\* two different values, for the pairs that differ.
C8_Witness ==
    /\ Ran(68) /\ Last.a = R(0) /\ Last.b = R(1)
    /\ Last.pre.regs[0] = Last.pre.regs[1]
    /\ Last.pre.regs[14] # <<0, 0>>
    /\ regs[ACC] = AllOnes

\* The opcodes that are not arithmetic, bitwise or comparison instructions.
NonAccOps == {1, 2, 3, 4} \cup (32 .. 35) \cup (48 .. 52) \cup {80, 81}

\* Operand encodings tried in either field.
OperandSamples == {R(0), R(15), FF}

\* C9: LD, LC, DR, CPY, JMP, JMR, CMP, CMR, PSH, POP, MOVSP, CALL, RET, LDI and
\* STI leave register 15 unchanged, whatever their operand fields encode.
C9_OnlyResultsWriteAcc ==
    (RanHandler /\ Last.opcode \in NonAccOps) =>
        /\ regs[ACC] = Last.pre.regs[ACC]
        /\ \A a \in OperandSamples : \A b \in OperandSamples :
              Handler(Last.opcode, Dispatched, a, b).regs[ACC] = Last.pre.regs[ACC]

\* LC with destination index 15 ran while register 15 held 0xFFFFFFFF: the
\* constant went to register 14.
C9_Witness ==
    /\ Ran(2) /\ Last.b = R(15)
    /\ Last.pre.regs[ACC] = AllOnes
    /\ regs[ACC] = AllOnes /\ regs[14] = read_u32_be(Last.a) /\ regs[14] # AllOnes

\* Entry e fetched an opcode that has no handler.
IsUnknown(e) == e.kind = "ok" /\ e.opcode \notin OPCODES

\* C10: an opcode without a handler stops the machine with registers, memory
\* and SP unchanged and PC at the instruction's address + 10, and nothing is
\* executed after it.
C10_UnknownOpcodeHalts ==
    /\ (loaded /\ Len(hist) > 0 /\ IsUnknown(Last)) =>
          /\ ~running /\ exc = "none"
          /\ regs = Last.pre.regs /\ memory = Last.pre.memory /\ sp = Last.pre.sp
          /\ pc = Add(Last.pre.pc, Ten)
    /\ \A i \in 1 .. (Len(hist) - 1) : ~IsUnknown(hist[i])

\* Opcode 0x0000 was fetched from zero-initialized memory after two
\* instructions ran, and the machine stopped.
C10_Witness ==
    /\ loaded /\ Len(hist) = 2 /\ IsUnknown(Last) /\ Last.opcode = 0
    /\ ~IsUnknown(hist[1])
    /\ Last.a = Z /\ Last.b = Z
    /\ ~running /\ pc = Add(Last.pre.pc, Ten)

\* C11: a cycle that starts with PC + 10 > MEM_SIZE stops the machine without
\* executing anything: PC (not advanced), SP, registers and memory are as
\* they were before the cycle.
C11_EndOfProgramHalts ==
    (loaded /\ Len(hist) > 0 /\ Gt(Add(Last.pre.pc, Ten), I(memory_size))) =>
        /\ Last.kind = "end"
        /\ ~running /\ exc = "none"
        /\ pc = Last.pre.pc /\ sp = Last.pre.sp
        /\ regs = Last.pre.regs /\ memory = Last.pre.memory

\* The relative jump taken by the instruction of entry e, if it takes one:
\* JMR with its offset in field A, CMR with its offset in field B when the
\* register named by field A is not zero.
JumpsBy(e) ==
    IF e.opcode = 33 /\ Len(e.a) = 4 THEN <<TRUE, read_s32_be(e.a)>>
    ELSE IF /\ e.opcode = 35 /\ Len(e.a) = 4 /\ Len(e.b) = 4
            /\ e.pre.regs[clamp_reg(e.a[4])] # <<0, 0>>
         THEN <<TRUE, read_s32_be(e.b)>>
         ELSE <<FALSE, <<0, 0>>>>

\* The instruction of entry e leaves PC to the loop: it is not JMP, JMR, CALL
\* or RET, nor a CMP or CMR whose register is not zero.
LeavesPc(e) ==
    \/ e.opcode \notin PcOps
    \/ /\ e.opcode \in {34, 35}
       /\ Len(e.a) = 4 /\ Len(e.b) = 4
       /\ e.pre.regs[clamp_reg(e.a[4])] = <<0, 0>>

\* C12: after an instruction fetched at address P, PC = P + 10 when the
\* instruction does not assign PC, and PC = P + 10 + signed offset after JMR
\* and after CMR with a non-zero register.
C12_PcAdvancedBeforeExecute ==
    (loaded /\ Len(hist) > 0 /\ Last.kind = "ok") =>
        /\ LeavesPc(Last) => pc = Add(Last.pre.pc, Ten)
        /\ JumpsBy(Last)[1] => pc = Add(Add(Last.pre.pc, Ten), JumpsBy(Last)[2])

\* JMR -30 fetched at address 0 ended with PC = -20, and not -30.
C12_Witness ==
    /\ Ran(33) /\ Last.pre.pc = <<0, 0>> /\ Last.a = W(0 - 30)
    /\ pc = Sub(Ten, <<0, 30>>) /\ pc # Sub(<<0, 0>>, <<0, 30>>)

\* Every register of machine vm holds an unsigned 32-bit value.
RegsAreWords(vm) == \A i \in 0 .. (NUM_REGS - 1) : IsU32(vm.regs[i])

\* The opcodes the claim names: SUB, DIV, EXP, NOT, NAND, NOR and the loads
\* LD, LC, POP, LDI.
WordWriters == {12, 14, 15, 10, 8, 9, 1, 2, 49, 80}

\* C13: in every reachable state each of the 16 registers holds an unsigned
\* 32-bit value, and each of SUB, DIV, EXP, NOT, NAND, NOR, LD, LC, POP, LDI
\* run in place of the one of them just dispatched would keep it so.
C13_RegistersAreWords ==
    /\ RegsAreWords(cur)
    /\ (RanHandler /\ Last.opcode \in WordWriters) =>
          \A op \in WordWriters : RegsAreWords(Handler(op, Dispatched, Last.a, Last.b))

\* NOT ran on a register holding 0 and left 0xFFFFFFFF, the largest word.
C13_Witness ==
    /\ Ran(10) /\ Last.a = R(0) /\ Last.pre.regs[0] = <<0, 0>>
    /\ regs[ACC] = AllOnes /\ IsU32(regs[ACC])

\* C14: PC is never negative, and every cycle that fetches and dispatches an
\* instruction started with 0 <= PC and PC + 10 <= MEM_SIZE.
C14_PcIsValidOffset ==
    /\ Ge(pc, <<0, 0>>)
    /\ (loaded /\ Len(hist) > 0 /\ Last.kind = "ok") =>
          /\ Ge(Last.pre.pc, <<0, 0>>)
          /\ Le(Add(Last.pre.pc, Ten), I(memory_size))

\* The arithmetic, bitwise and comparison opcodes.
AluOps == (5 .. 15) \cup (64 .. 69)

\* Machine after differs from machine before at most in register 15, and in
\* an exception raised.
OnlyAccWritten(before, after) ==
    /\ \A i \in 0 .. (ACC - 1) : after.regs[i] = before.regs[i]
    /\ after.memory = before.memory
    /\ after.sp = before.sp
    /\ after.pc = before.pc
    /\ after.running = before.running

\* C15: an arithmetic, bitwise or comparison instruction leaves registers
\* 0-14, the memory and SP unchanged and PC at the instruction's address + 10;
\* so does its handler on the register operands 0, 14 and 15.
C15_AluWritesOnlyAcc ==
    (loaded /\ Len(hist) > 0 /\ Last.kind = "ok" /\ Last.opcode \in AluOps) =>
        /\ OnlyAccWritten(Dispatched, cur)
        /\ pc = Add(Last.pre.pc, Ten)
        /\ \A r \in {0, 14, 15} : \A s \in {0, 14, 15} :
              OnlyAccWritten(Dispatched, Handler(Last.opcode, Dispatched, R(r), R(s)))

\* XOR r0, r1 ran with r0 = 0xFFFFFFFF: register 15 changed, register 0 kept
\* its value.
C15_Witness ==
    /\ Ran(7) /\ Last.a = R(0) /\ Last.b = R(1)
    /\ Last.pre.regs[0] = AllOnes /\ Last.pre.regs[1] = <<0, 0>>
    /\ Last.pre.regs[ACC] = <<0, 0>>
    /\ regs[ACC] = AllOnes /\ regs[0] = AllOnes /\ regs[1] = <<0, 0>>

\* Address A is in bounds for a word: 0 <= A and A + 4 <= MEM_SIZE.
InBounds(A) == Ge(A, <<0, 0>>) /\ Le(Add(A, Four), I(memory_size))

\* The four bytes of memory m at the in-bounds address A.
WordAt(m, A) == SubSeq(m, A[2] + 1, A[2] + 4)

\* Bytes w are the word v, most significant byte first.
IsBigEndian(w, v) ==
    /\ Len(w) = 4 /\ \A i \in 1 .. 4 : w[i] \in 0 .. 255
    /\ w[1] * 256 + w[2] = v[1]
    /\ w[3] * 256 + w[4] = v[2]

\* Storing register r at A with DR, then loading A into register d with LD
\* or with LDI through register q, from machine vm.
StoreThenLoad(vm, r, A, d) == Handler(1, Handler(3, vm, R(r), W(A)), W(A), R(d))

StoreThenLoadIndirect(vm, r, A, q, d) == Handler(80, Handler(3, vm, R(r), W(A)), R(q), R(d))

\* STI of register r through register q, then LDI through q into d.
StoreIndirectThenLoad(vm, r, q, d) == Handler(80, Handler(81, vm, R(r), R(q)), R(q), R(d))

\* C16: a DR (or STI) of a register holding v to an in-bounds address A puts
\* the bytes of v at A..A+3 most significant first, and an LD from A (or an
\* LDI through a register holding A) that follows yields v: for the pairs of
\* instructions that ran, and for the pairs run from the current machine on
\* sample registers and addresses.
C16_StoreLoadRoundTrip ==
    /\ ( /\ loaded /\ Len(hist) = 2
         /\ hist[1].kind = "ok" /\ hist[1].opcode \in {3, 81}
         /\ hist[2].kind = "ok" /\ hist[2].opcode \in {1, 80}
         /\ Len(hist[1].a) = 4 /\ Len(hist[1].b) = 4
         /\ Len(hist[2].a) = 4 /\ Len(hist[2].b) = 4
         /\ InBounds(AccessAddr(hist[1]))
         /\ AccessAddr(hist[2]) = AccessAddr(hist[1]) ) =>
            LET v == hist[1].pre.regs[clamp_reg(hist[1].a[4])]
            IN  /\ exc = "none"
                /\ IsBigEndian(WordAt(hist[2].pre.memory, AccessAddr(hist[1])), v)
                /\ regs[clamp_reg(hist[2].b[4])] = v
    /\ (RanHandler /\ Last.opcode \in {1, 2, 3, 80, 81}) =>
          \A r \in SampleRegs : \A d \in {1, 15} :
             /\ \A A \in {0, DataAddr} :
                   /\ IsBigEndian(WordAt(Handler(3, cur, R(r), W(A)).memory, I(A)), regs[r])
                   /\ StoreThenLoad(cur, r, A, d).regs[clamp_reg(d)] = regs[r]
                   /\ \A q \in {0, 2} :
                         regs[q] = I(A) =>
                            StoreThenLoadIndirect(cur, r, A, q, d).regs[clamp_reg(d)] = regs[r]
             /\ \A q \in {0, 2} :
                   InBounds(regs[q]) =>
                      StoreIndirectThenLoad(cur, r, q, d).regs[clamp_reg(d)] = regs[r]

\* STI r0 -> [r0] and then LDI [r0] -> r2 ran with r0 holding the last word
\* address: the word there reads 00 00 00 <address>, and r2 holds the address.
C16_Witness ==
    /\ RanTwo(81, 80)
    /\ hist[1].a = R(0) /\ hist[1].b = R(0) /\ Last.a = R(0) /\ Last.b = R(2)
    /\ Last.pre.regs[0] = I(DataAddr)
    /\ WordAt(memory, I(DataAddr)) = <<0, 0, 0, DataAddr>>
    /\ regs[2] = I(DataAddr)

\* Machines v and w agree on everything but register 15.
SameButAcc(v, w) == [v EXCEPT !.regs[ACC] = <<0, 0>>] = [w EXCEPT !.regs[ACC] = <<0, 0>>]

\* Machine vm with another value in register 15.
WithAcc(vm, x) == [vm EXCEPT !.regs[ACC] = x]

\* Values register 15 is varied to: the largest word and an instruction address.
AccVariants == {AllOnes, <<0, 20>>}

\* A value for register 15 other than v.
OtherAcc(v) == IF v = AllOnes THEN <<0, 20>> ELSE AllOnes

\* One pass of the loop of run(), if the loop is still going.
RunCycle(vm) == IF vm.running /\ vm.exc = "none" THEN Cycle(vm) ELSE vm

Executed ==
    IF Len(hist) > 0 /\ ~(Last.kind = "ok" /\ Last.opcode \in OPCODES)
    THEN cycles - 1
    ELSE cycles

\* No JMP, JMR, CMP, CMR, CALL or RET has been executed so far.
StraightLine == loaded /\ Len(hist) > 0 /\ Last.straight

\* A straight-line run executes at most floor(MEM_SIZE / 10) instructions.
AtMostFloorInstructions == StraightLine => Executed <= memory_size \div 10

\* A straight-line run leaves the loop of run() by Halted only, never by an
\* exception.
LeavesByHaltedOnly == StraightLine => exc = "none"

\* C18: while no JMP, JMR, CMP, CMR, CALL or RET has been executed, every
\* dispatched cycle adds 10 to PC, at most floor(MEM_SIZE / 10) instructions
\* are executed, and the run loop is left only by Halted.
C18_StraightLineTerminates ==
    /\ (StraightLine /\ Last.kind = "ok") => pc = Add(Last.pre.pc, Ten)
    /\ AtMostFloorInstructions
    /\ LeavesByHaltedOnly

====
